---- MODULE Spec2Model ----
(***************************************************************************)
(* Buffered byte streams of src/printf/ostream.cpp.                        *)
(*                                                                         *)
(* These state machines share this module:                                 *)
(*   SpecOut  - BufferedOutStream (Full / Line / None) over an OutStream   *)
(*              backend, one action per public method;                     *)
(*   SpecUW   - UnixFileOutStream::write, one action per ::write call, so  *)
(*              that short writes, errors and zero returns are visible;    *)
(*   SpecIn   - UnixFileInStream and BufferedInStream with the derived     *)
(*              operations of InStream, one action per public method, over *)
(*              a descriptor that delivers chunks and then end of file;    *)
(*   SpecInErr - the same streams over a descriptor on which a ::read      *)
(*              fails;                                                     *)
(*   SpecLines - readuntil and getline of InStream over both streams;      *)
(*   SpecMain - main: a file written through out_file_open's stream, one   *)
(*              action per ::write call of the destructor's flush, and     *)
(*              read back line by line.                                    *)
(* Sizes are scaled down: the ratio BUFSIZ = 2 * valloc size of the write  *)
(* buffer is kept, size_t is SizeBits wide.                                *)
(***************************************************************************)
EXTENDS Integers, Sequences, FiniteSets, TLC

VARIABLES
    scene,      \* which machine runs: "out", "uw", "in" or "main"
    \* ---- BufferedOutStream
    mode,       \* BufferMode given to the constructor
    top,        \* write cursor
    buf,        \* memory at buf[0 .. BUFSIZ-1]; only [0, VallocSize) is allocated
    ostate,     \* "live", "dtor" (in the destructor's flush), "destroyed" (the
                \* destructor ran and closed the descriptor) or "terminated"
                \* (it ended the process)
    calls,      \* backend calls so far: [op, kind, data]
    submitted,  \* bytes given to write/putchar calls that returned
    failed,     \* some backend write threw
    atDtor,     \* the pending bytes when the destructor started
    \* ---- UnixFileOutStream::write
    uwpc,       \* "idle", "retry" (in the while loop), "returned" or "thrown"
    uws,        \* the bytes s[0 .. len) of the call
    written,    \* the size_t variable written
    accepted,   \* the bytes the OS has accepted, in order
    rets,       \* what each ::write call returned (ssize_t)
    uwerr,      \* the error thrown: "none", "errno" or "EPIPE"
    \* ---- InStream (top and buf above are also BufferedInStream's fields)
    kind,       \* the stream read from: "unix" (UnixFileInStream) or "buffered"
    charSigned, \* whether char is signed in this build
    feed,       \* what the descriptor still delivers: items [b, end]
    source,     \* every byte the descriptor delivers, from the start
    max,        \* BufferedInStream::max
    delivered,  \* the bytes the calls have produced, up to a failing ::read
    osfailed,   \* some ::read returned -1
    afterFail,  \* the calls made since the one in which ::read failed
    res,        \* the last call: [op, len, ret, data, os, thrown]
    printed     \* the strings main has printed

outVars == <<mode, top, buf, ostate, calls, submitted, failed, atDtor>>
uwVars == <<uwpc, uws, written, accepted, rets, uwerr>>
inVars == <<kind, charSigned, feed, source, max, delivered, osfailed,
           afterFail, res, printed>>
vars == <<scene, outVars, uwVars, inVars>>

----------------------------------------------------------------------------
(* Sizes *)

\* valloc(4096), scaled
VallocSize == 2
\* BUFSIZ of <cstdio> on Linux/glibc is 8192, twice the valloc'd size
BUFSIZ == 2 * VallocSize
\* the longest s of one write(s, len) call
MaxLen == 3
\* the number of bytes submitted to one output stream
MaxSubmit == 5
\* the width of size_t in bits (64 in the build), and its modulus
SizeBits == 4
SizeMod == 2 ^ SizeBits
\* the number of ::write calls of one UnixFileOutStream::write
MaxOsCalls == 4

\* the bytes of the model: '\n', 'A' and, for reads, 0xFF
NL == 10
OutByte == {NL, 65}
InByte == {NL, 65, 255}
\* the bytes one descriptor delivers before end of file
MaxSrc == 3
\* read calls are taken while fewer bytes than this have been produced
MaxDelivered == 4
\* the largest len of one read(s, len) or readn(s, len) call
MaxRead == 2
\* the longest delimiter of readuntil(eol, neol) and getline(eol, neol)
MaxDelim == 2
\* the calls followed on a stream after the call in which ::read failed
MaxAfterFail == 2

\* enum BufferMode, and the <cstdio> macros the code compares it with
FullBuf == 0
LineBuf == 1
NoBuf == 2
IOLBF == 1
IONBF == 2
BufferMode == {FullBuf, LineBuf, NoBuf}

\* a cell of valloc'd memory that was never written
Uninit == -2
EOF == -1

Min(a, b) == IF a <= b THEN a ELSE b

SeqsUpTo(S, n) == UNION {[1..k -> S] : k \in 0..n}

RECURSIVE Flatten(_)
Flatten(ss) == IF ss = <<>> THEN <<>> ELSE Head(ss) \o Flatten(Tail(ss))

----------------------------------------------------------------------------
(* BufferedOutStream *)

\* A call in progress: the stream's fields, the backend calls made, the name
\* of the running method, whether it has thrown, and how many non-empty
\* backend writes still succeed before one throws (-1: all succeed).
Call(op, fuel) ==
    [top |-> top, buf |-> buf, calls |-> calls, op |-> op,
     thrown |-> FALSE, fuel |-> fuel]

\* the pending region [0, top) as the memory holds it
Pending(st) == [i \in 1..st.top |-> st.buf[i - 1]]

\* out->write(data, len): the backend returns at once for len == 0, takes all
\* the bytes, or throws having taken none
OutWrite(st, data) ==
    IF st.thrown \/ Len(data) = 0 THEN st
    ELSE IF st.fuel = 0 THEN [st EXCEPT !.thrown = TRUE]
    ELSE [st EXCEPT
            !.calls = Append(@, [op |-> st.op, kind |-> "write", data |-> data]),
            !.fuel = IF @ > 0 THEN @ - 1 ELSE @]

\* flush(): out->write(buf, top); top = 0  (top stays when the write throws)
FlushKeepsTop(st) == OutWrite(st, Pending(st))
FlushDropsPending(st) == [OutWrite(st, Pending(st)) EXCEPT !.top = 0]
flush(st) ==
    LET w == OutWrite(st, Pending(st))
    IN  IF w.thrown THEN w ELSE [w EXCEPT !.top = 0]

\* buf[i] = c: inside the allocation the cell holds c; past it the store is out
\* of bounds and the cell later reads as j, any byte
Store(st, c, j) ==
    [st EXCEPT !.buf[st.top] = IF st.top < VallocSize THEN c ELSE j,
               !.top = st.top + 1]

\* does the byte just appended trigger a flush?
NewlineAlways(c) == c = NL
LineTrigger(c) == mode = IOLBF /\ c = NL

\* the body shared by putchar and the loop of write
AppendByte(st, c, j) ==
    IF st.thrown THEN st
    ELSE LET a == IF st.top = BUFSIZ THEN flush(st) ELSE st
         IN  IF a.thrown THEN a
             ELSE LET b == Store(a, c, j)
                  IN  IF LineTrigger(c) THEN flush(b) ELSE b

RECURSIVE WriteLoop(_, _, _)
WriteLoop(st, s, junk) ==
    IF s = <<>> THEN st
    ELSE WriteLoop(AppendByte(st, Head(s), Head(junk)), Tail(s), Tail(junk))

\* write(s, len)
write(st, s, junk) ==
    IF mode = IONBF THEN OutWrite(st, s) ELSE WriteLoop(st, s, junk)

\* putchar(c)
PutcharBuffered(st, c, j) == AppendByte(st, c, j)
putchar(st, c, j) ==
    IF mode = IONBF THEN OutWrite(st, <<c>>) ELSE AppendByte(st, c, j)

\* the stream after a call that ended in state st
Returned(st, s) ==
    /\ top' = st.top
    /\ buf' = st.buf
    /\ calls' = st.calls
    /\ submitted' = IF st.thrown THEN submitted ELSE submitted \o s
    /\ failed' = (failed \/ st.thrown)

\* the backend never throws (-1), or throws at its first or second non-empty
\* write of the call
Fuel == {-1, 0, 1}

\* What the memory holds after the stores of a call appending s: a store can
\* land out of bounds only when top + Len(s) passes the allocation
Junk(s) ==
    IF mode /= IONBF /\ top + Len(s) > VallocSize
    THEN [1..Len(s) -> OutByte]
    ELSE {s}

\* every byte the backend was handed, in order
Handed == Flatten([i \in 1..Len(calls) |-> calls[i].data])

\* room left for n more bytes within the model's bound
Room(n) == Len(Handed) + top + n <= MaxSubmit

Write ==
    /\ scene = "out" /\ ostate = "live"
    /\ \E s \in SeqsUpTo(OutByte, MaxLen), fuel \in Fuel :
         /\ Room(Len(s))
         /\ \E junk \in Junk(s) :
              Returned(write(Call("write", fuel), s, junk), s)
    /\ UNCHANGED <<scene, mode, ostate, atDtor, uwVars, inVars>>

Putchar ==
    /\ scene = "out" /\ ostate = "live"
    /\ Room(1)
    /\ \E c \in OutByte, fuel \in Fuel :
         \E junk \in Junk(<<c>>) :
           Returned(putchar(Call("putchar", fuel), c, junk[1]), <<c>>)
    /\ UNCHANGED <<scene, mode, ostate, atDtor, uwVars, inVars>>

\* flush() over a backend that takes the bytes (fuel -1) or throws (fuel 0)
FlushOf(fuel) ==
    /\ scene = "out" /\ ostate = "live"
    /\ Returned(flush(Call("flush", fuel)), <<>>)
    /\ UNCHANGED <<scene, mode, ostate, atDtor, uwVars, inVars>>

Flush == \E fuel \in {-1, 0} : FlushOf(fuel)

\* ~BufferedOutStream(): flush(); free(buf); then the member out is destroyed,
\* which closes the descriptor.  A destructor is noexcept: a throwing flush
\* ends the process in std::terminate before anything is closed.  After an
\* out-of-bounds store free(buf) may find the heap corrupted and abort.
DtorNoFlush(st) == st
DtorBody(st) == flush(st)

\* a store has landed past the allocation (the cell after it was written)
Overflowed == mode /= IONBF /\ buf[VallocSize] /= Uninit
Destroy ==
    /\ scene = "out" /\ ostate = "live"
    /\ \E fuel \in {-1, 0}, abort \in IF Overflowed THEN BOOLEAN ELSE {FALSE} :
         LET st == DtorBody(Call("dtor", fuel))
         IN  /\ top' = st.top
             /\ buf' = st.buf
             /\ failed' = (failed \/ st.thrown)
             /\ ostate' = IF st.thrown \/ abort THEN "terminated" ELSE "destroyed"
             /\ calls' = IF st.thrown \/ abort THEN st.calls
                         ELSE Append(st.calls,
                                [op |-> "dtor", kind |-> "close", data |-> <<>>])
    /\ atDtor' = [i \in 1..top |-> buf[i - 1]]
    /\ UNCHANGED <<scene, mode, submitted, uwVars, inVars>>

\* BufferedOutStream(out_, mode_, buf_ = nullptr): every construction in the
\* source passes no buffer, so the constructor allocates one unless NoBuf
\* a write stream that is not part of the run
NoOutFields ==
    /\ mode = NoBuf /\ ostate = "absent"
    /\ calls = << >> /\ submitted = << >> /\ failed = FALSE /\ atDtor = << >>

NoOutStream == NoOutFields /\ top = 0 /\ buf = << >>

\* no backend write in progress
NoUnixWrite ==
    /\ uwpc = "idle" /\ uws = << >> /\ written = 0
    /\ accepted = << >> /\ rets = << >> /\ uwerr = "none"

\* no read stream
NoInStream ==
    /\ kind = "none" /\ charSigned = TRUE /\ feed = << >> /\ source = << >>
    /\ max = 0 /\ delivered = << >> /\ osfailed = FALSE /\ afterFail = 0
    /\ res = [op |-> "none", len |-> 0, ret |-> 0, data |-> << >>,
              os |-> << >>, thrown |-> FALSE]
    /\ printed = << >>

InitOut ==
    /\ scene = "out"
    /\ NoUnixWrite
    /\ NoInStream
    /\ mode \in BufferMode
    /\ top = 0
    /\ buf = [i \in 0..(BUFSIZ - 1) |-> Uninit]
    /\ ostate = "live"
    /\ calls = <<>>
    /\ submitted = <<>>
    /\ failed = FALSE
    /\ atDtor = <<>>

NextOut == Write \/ Putchar \/ Flush \/ Destroy

SpecOut == InitOut /\ [][NextOut]_vars

----------------------------------------------------------------------------
(* Properties of BufferedOutStream *)

IsPrefix(p, s) == Len(p) <= Len(s) /\ \A i \in 1..Len(p) : p[i] = s[i]

\* the longest prefix of s that ends in a newline
UpToLastNL(s) ==
    LET ix == {i \in 1..Len(s) : s[i] = NL}
    IN  IF ix = {} THEN <<>>
        ELSE SubSeq(s, 1, CHOOSE i \in ix : \A k \in ix : k <= i)

\* C1: in any mode, after any write/putchar calls followed by flush() or
\* destruction (no backend write having thrown), the bytes handed to the
\* backend are exactly the submitted bytes in submission order.  A flush leaves
\* top = 0, and with top = 0 a further flush hands over nothing.
C1_ExactConcatenation ==
    (scene = "out" /\ ~failed /\ (top = 0 \/ ostate = "destroyed"))
        => Handed = submitted

\* C3: in Line mode, whenever write/putchar has returned (no backend write
\* having thrown), the backend has received every submitted byte up to and
\* including the last newline, and the pending region [0, top) holds no newline.
C3_LineFlushOnNewline ==
    (scene = "out" /\ mode = LineBuf /\ ~failed /\ ostate = "live")
        => /\ IsPrefix(UpToLastNL(submitted), Handed)
           /\ \A i \in 0..(top - 1) : buf[i] /= NL

\* C4: in Full mode write and putchar hand bytes to the backend only when the
\* buffer has filled (every chunk they hand over is a whole buffer); any other
\* backend write comes from flush() or the destructor.  Newlines cause none.
C4_FullModeOnlyWhenFull ==
    (scene = "out" /\ mode = FullBuf)
        => \A i \in 1..Len(calls) :
              (calls[i].kind = "write" /\ calls[i].op \in {"write", "putchar"})
                  => Len(calls[i].data) = BUFSIZ

\* C4 witness: a Full-mode stream took a newline and then more bytes without
\* any backend write, and a later call flushed the filled buffer.
C4_Witness ==
    /\ scene = "out" /\ mode = FullBuf /\ ~failed
    /\ \E i \in 1..Len(calls) :
          /\ calls[i].op \in {"write", "putchar"}
          /\ \E k \in 1..(BUFSIZ - 1) : calls[i].data[k] = NL

\* C5: the descriptor is closed only by a destructor whose flush returned: the
\* close is the last backend call, top is 0 by then, and the bytes pending when
\* the destructor started were handed to the backend just before it.
C5_FlushBeforeClose ==
    scene = "out" =>
        /\ \A i \in 1..Len(calls) :
              calls[i].kind = "close" => (i = Len(calls) /\ ostate = "destroyed")
        /\ ostate = "destroyed" =>
              /\ calls /= <<>> /\ calls[Len(calls)].kind = "close"
              /\ top = 0
              /\ atDtor /= <<>> =>
                    /\ Len(calls) >= 2
                    /\ calls[Len(calls) - 1] =
                          [op |-> "dtor", kind |-> "write", data |-> atDtor]

\* C5 witness: a stream destroyed with pending bytes.
C5_Witness == scene = "out" /\ ostate = "destroyed" /\ atDtor /= <<>>

\* the pending region [0, top) of the stream
PendingNow == Pending(Call("flush", -1))
\* the one backend write of a flush() that hands over data
FlushCall(data) == [op |-> "flush", kind |-> "write", data |-> data]

\* C16: a flush() whose backend write returns hands the backend exactly the
\* pending bytes [0, top), in one write, and leaves top = 0; with top = 0 a
\* flush(), whatever the backend would do, makes no backend write, delivers
\* nothing and changes nothing.
C16_FlushHandsPending ==
    [][/\ FlushOf(-1) =>
            /\ top' = 0
            /\ calls' = IF top = 0 THEN calls
                        ELSE Append(calls, FlushCall(PendingNow))
       /\ \A fuel \in {-1, 0} : (top = 0 /\ FlushOf(fuel)) => UNCHANGED vars]_vars

\* C16 witness: a flush() has just handed over the pending bytes, so that the
\* next flush() finds top = 0.
C16_Witness ==
    /\ scene = "out" /\ ostate = "live" /\ ~failed /\ top = 0
    /\ calls /= << >> /\ calls[Len(calls)].op = "flush"
    /\ calls[Len(calls)].data = submitted

\* C20: a flush() whose backend write throws leaves the buffer as it was: top
\* is not reset, the pending bytes stay, no call is recorded, and a flush()
\* that succeeds afterwards hands over those same bytes.
C20_FailingFlushKeepsPending ==
    [][(top > 0 /\ FlushOf(0)) =>
          /\ failed'
          /\ top' = top /\ buf' = buf /\ calls' = calls
          /\ PendingNow' = PendingNow
          /\ flush(Call("flush", -1))'.calls
                = Append(calls, FlushCall(PendingNow))]_vars

\* C20 witness: in Full mode a flush() failed with bytes pending (no other
\* call reaches the backend before the buffer is full), and the one backend
\* write made since then, by a later flush(), handed over all the bytes
\* submitted.
C20_Witness ==
    /\ scene = "out" /\ mode = FullBuf /\ ostate = "live" /\ failed
    /\ submitted /= << >> /\ Len(submitted) <= VallocSize
    /\ calls = <<FlushCall(submitted)>>

\* C17: in mode NoBuf every write and putchar call that returns has handed its
\* bytes to the backend, so the backend holds exactly the bytes submitted; top
\* stays 0, no cell of a buffer is ever stored to, and flush() and the
\* destructor hand over nothing.
C17_NoneModeForwards ==
    (scene = "out" /\ mode = NoBuf) =>
        /\ top = 0
        /\ \A i \in 0..(BUFSIZ - 1) : buf[i] = Uninit
        /\ Handed = submitted
        /\ \A i \in 1..Len(calls) :
              calls[i].kind = "write" => calls[i].op \in {"write", "putchar"}

\* C17 witness: a NoBuf stream took a write and a putchar, was flushed or not,
\* and has been destroyed.
C17_Witness ==
    /\ scene = "out" /\ mode = NoBuf /\ ostate = "destroyed"
    /\ \E i, k \in 1..Len(calls) :
          /\ calls[i].op = "write" /\ Len(calls[i].data) >= 2
          /\ calls[k].op = "putchar"

\* C18: in Full and Line mode top never passes the capacity of the array the
\* stream allocated, and no append has stored a byte at or past it.
C18_TopWithinCapacity ==
    (scene = "out" /\ mode /= NoBuf) =>
        /\ 0 <= top /\ top <= VallocSize
        /\ \A i \in VallocSize..(BUFSIZ - 1) : buf[i] = Uninit

\* the close calls made on the descriptor
Closes == {i \in 1..Len(calls) : calls[i].kind = "close"}

\* C15: the descriptor is closed exactly once when its owner is torn down, on
\* every path, also when the teardown-time flush fails (no store having gone
\* past the allocation).
C15_ClosedExactlyOnce ==
    (scene = "out" /\ ostate \in {"destroyed", "terminated"} /\ ~Overflowed)
        => Cardinality(Closes) = 1

----------------------------------------------------------------------------
(* UnixFileOutStream::write(s, len), one action per ::write call *)

\* ssize_t to size_t: -1 becomes SIZE_MAX
ToSizeT(r) == r % SizeMod
\* a size_t used as a pointer offset: s + SIZE_MAX is s - 1
Offset(w) == IF w >= SizeMod \div 2 THEN w - SizeMod ELSE w

\* "written < 0" on a size_t: false for every value
IsNegative(w) == w < 0

\* where a retry starts in s
RetryFromZero(w) == 0
RetryStart(w) == Offset(w)

\* the n bytes at s + off: those of s inside [0, len), whatever the memory
\* around s holds (junk) outside
Mem(s, off, n, junk) ==
    [i \in 1..n |-> IF off + i >= 1 /\ off + i <= Len(s)
                    THEN s[off + i] ELSE junk[i]]

\* the memory a call of n bytes at offset off may read
MemChoices(s, off, n) ==
    IF off >= 0 /\ off + n <= Len(s) THEN {[i \in 1..n |-> NL]}
    ELSE [1..n -> OutByte]

\* what ::write may return when asked for n bytes
OsReturns(n) == -1 .. n

\* write(s, 0): returns without an OS call
UWEmpty ==
    /\ scene = "uw" /\ uwpc = "idle"
    /\ uwpc' = "returned"
    /\ UNCHANGED <<scene, outVars, inVars, uws, written, accepted, rets, uwerr>>

\* lines 232-241 and the first test of the loop, for write(s, len), len > 0
UWFirstOf(s) ==
    \E r \in OsReturns(Len(s)) :
         /\ uws' = s
         /\ rets' = <<r>>
         /\ accepted' = SubSeq(s, 1, r)
         /\ written' = ToSizeT(r)
         /\ IF IsNegative(ToSizeT(r))
            THEN uwpc' = "thrown" /\ uwerr' = "errno"
            ELSE IF ToSizeT(r) = 0
            THEN uwpc' = "thrown" /\ uwerr' = "EPIPE"
            ELSE /\ uwerr' = "none"
                 /\ uwpc' = IF ToSizeT(r) /= Len(s) THEN "retry" ELSE "returned"

UWFirst ==
    /\ scene = "uw" /\ uwpc = "idle"
    /\ \E s \in SeqsUpTo(OutByte, MaxLen) \ {<< >>} : UWFirstOf(s)
    /\ UNCHANGED <<scene, outVars, inVars>>

\* one turn of the while loop, lines 242-248
UWRetry ==
    /\ scene \in {"uw", "main"} /\ uwpc = "retry"
    /\ Len(rets) < MaxOsCalls
    /\ LET n == ToSizeT(Len(uws) - written)
           off == RetryStart(written)
       IN  \E r \in OsReturns(n) :
             \E junk \in MemChoices(uws, off, IF r > 0 THEN r ELSE 0) :
               LET new_written == ToSizeT(r)
                   w == ToSizeT(written + new_written)
               IN  /\ rets' = Append(rets, r)
                   /\ accepted' = accepted \o
                          Mem(uws, off, IF r > 0 THEN r ELSE 0, junk)
                   /\ IF IsNegative(new_written)
                      THEN uwpc' = "thrown" /\ uwerr' = "errno"
                                            /\ written' = written
                      ELSE /\ written' = w
                           /\ uwerr' = "none"
                           /\ uwpc' = IF w /= Len(uws) THEN "retry" ELSE "returned"
    /\ UNCHANGED <<scene, outVars, inVars, uws>>

InitUW ==
    /\ scene = "uw"
    /\ NoOutStream
    /\ NoUnixWrite
    /\ NoInStream

NextUW == UWEmpty \/ UWFirst \/ UWRetry

SpecUW == InitUW /\ [][NextUW]_vars

----------------------------------------------------------------------------
(* Properties of UnixFileOutStream::write *)

AllPositive(rs) == \A i \in 1..Len(rs) : rs[i] > 0
LastRet == rets[Len(rets)]

\* C6: when every ::write returned a positive count, the bytes the OS accepted
\* are at every moment s[0 .. written), each retry resuming where the last one
\* ended, and write(s, len) returns normally only with written = len, so the OS
\* has accepted exactly s.
C6_AllBytesInOrder ==
    (scene = "uw" /\ AllPositive(rets)) =>
        /\ written <= Len(uws)
        /\ accepted = SubSeq(uws, 1, written)
        /\ uwpc = "returned" => accepted = uws
        /\ uwpc /= "thrown"

\* C6 witness: a write that returned after a short write and a retry.
C6_Witness ==
    /\ scene = "uw" /\ uwpc = "returned" /\ AllPositive(rets)
    /\ Len(rets) >= 2 /\ Len(uws) = MaxLen

\* C7: a negative return of any ::write call aborts the operation with the OS
\* error.
C7_ErrorAborts ==
    (scene = "uw" /\ rets /= << >> /\ LastRet < 0)
        => (uwpc = "thrown" /\ uwerr = "errno")

\* C8: with len > 0, a ::write call returning 0, the first or a retry after
\* short writes, ends the operation with a broken-pipe failure.
C8_ZeroIsBrokenPipe ==
    (scene = "uw" /\ rets /= << >> /\ LastRet = 0
        /\ \A i \in 1..Len(rets) : rets[i] >= 0)
        => (uwpc = "thrown" /\ uwerr = "EPIPE")

----------------------------------------------------------------------------
(* The descriptor read from *)

\* An item is one byte, with end set when the chunk the OS delivers stops
\* after it, or the mark of a failing ::read.
ErrItem == [b |-> -1, end |-> TRUE]
Items == [b : InByte, end : BOOLEAN] \cup {ErrItem}
WellFormed(f) ==
    /\ f /= << >> => f[Len(f)].end
    /\ \A i \in 1..(Len(f) - 1) : f[i + 1] = ErrItem => f[i].end
    /\ Cardinality({i \in 1..Len(f) : f[i] = ErrItem}) <= 1
Fails(f) == \E i \in 1..Len(f) : f[i] = ErrItem
\* descriptors that deliver chunks and then end of file
Feeds == {f \in SeqsUpTo(Items, MaxSrc) : WellFormed(f) /\ ~Fails(f)}
\* descriptors on which one ::read fails
ErrFeeds == {f \in SeqsUpTo(Items, MaxSrc) : WellFormed(f) /\ Fails(f)}

\* the bytes of a feed
RECURSIVE FeedBytes(_)
FeedBytes(f) ==
    IF f = << >> THEN << >>
    ELSE IF Head(f) = ErrItem THEN FeedBytes(Tail(f))
    ELSE <<Head(f).b>> \o FeedBytes(Tail(f))

\* ::read(fd, s, len) with len > 0: 0 at end of file, -1 on failure, else the
\* next chunk, cut to len bytes
OsRead(f, len) ==
    IF f = << >> THEN [ret |-> 0, data |-> << >>, feed |-> f]
    ELSE IF Head(f) = ErrItem THEN [ret |-> -1, data |-> << >>, feed |-> Tail(f)]
    ELSE LET lim == Min(len, Len(f))
             k == CHOOSE k \in 1..lim :
                     /\ f[k].end \/ k = lim
                     /\ \A m \in 1..(k - 1) : ~f[m].end
         IN  [ret |-> k, data |-> [i \in 1..k |-> f[i].b],
              feed |-> SubSeq(f, k + 1, Len(f))]

----------------------------------------------------------------------------
(* UnixFileInStream, InStream, BufferedInStream *)

\* A call in progress: the descriptor, BufferedInStream's fields, what each
\* ::read of the call returned, and whether the call has thrown.
InCall ==
    [feed |-> feed, top |-> top, max |-> max, buf |-> buf,
     os |-> << >>, thrown |-> FALSE]

\* UnixFileInStream::read(s, len)
UnixRead(st, len) ==
    IF len = 0 THEN [st |-> st, n |-> 0, data |-> << >>]
    ELSE LET r == OsRead(st.feed, len)
             n == ToSizeT(r.ret)
             st1 == [st EXCEPT !.feed = r.feed, !.os = Append(@, r.ret)]
         IN  IF IsNegative(n)
             THEN [st |-> [st1 EXCEPT !.thrown = TRUE], n |-> 0, data |-> << >>]
             ELSE [st |-> st1, n |-> n, data |-> r.data]

\* char to int
ToChar(b) == IF charSigned /\ b >= 128 THEN b - 256 ELSE b

\* InStream::getchar(); j is what the uninitialized c holds
IGetchar(st, j) ==
    LET r == UnixRead(st, 1)
    IN  IF r.st.thrown THEN [st |-> r.st, ret |-> 0, data |-> << >>]
        ELSE IF r.n = 0 THEN [st |-> r.st, ret |-> EOF, data |-> << >>]
        ELSE LET c == IF r.data /= << >> THEN r.data[1] ELSE j
             IN  [st |-> r.st, ret |-> ToChar(c), data |-> <<c>>]

\* the OS stores data at s + off; cells outside s[0 .. len) are not s's
PutAtStart(dst, off, data) ==
    [i \in 1..Len(dst) |-> IF i <= Len(data) THEN data[i] ELSE dst[i]]
Put(dst, off, data) ==
    [i \in 1..Len(dst) |->
        IF i - off >= 1 /\ i - off <= Len(data) THEN data[i - off] ELSE dst[i]]

\* what the caller finds in s[0 .. n): the cells stored, junk where none was
Seen(dst, n, junk) ==
    [i \in 1..Min(n, Len(dst)) |-> IF dst[i] = Uninit THEN junk[i] ELSE dst[i]]

\* the while loop of InStream::readn
RECURSIVE IReadnLoop(_, _, _, _)
IReadnLoop(st, len, n, dst) ==
    IF n = len THEN [st |-> st, n |-> n, dst |-> dst]
    ELSE LET r == UnixRead(st, ToSizeT(len - n))
         IN  IF r.st.thrown \/ r.n = 0 THEN [st |-> r.st, n |-> n, dst |-> dst]
             ELSE IReadnLoop(r.st, len, ToSizeT(n + r.n),
                             Put(dst, Offset(n), r.data))

\* InStream::readn(s, len)
IReadn(st, len) ==
    LET dst == [i \in 1..len |-> Uninit]
        r == UnixRead(st, len)
    IN  IF r.st.thrown \/ r.n = 0 THEN [st |-> r.st, n |-> 0, dst |-> dst]
        ELSE IReadnLoop(r.st, len, r.n, Put(dst, 0, r.data))

\* BufferedInStream::refill(); its result is max != 0
refill(st) ==
    LET r == UnixRead([st EXCEPT !.top = 0], BUFSIZ)
    IN  IF r.st.thrown THEN r.st
        ELSE [r.st EXCEPT
                !.max = r.n,
                !.buf = [i \in 0..(BUFSIZ - 1) |->
                            IF i < Len(r.data) THEN r.data[i + 1] ELSE st.buf[i]]]

\* buf[i]: a cell never written, or past the BUFSIZ bytes allocated, reads as j
Cell(st, i, j) ==
    IF i < BUFSIZ /\ st.buf[i] /= Uninit THEN st.buf[i] ELSE j

\* top++
Advance(st) == [st EXCEPT !.top = ToSizeT(st.top + 1)]

\* BufferedInStream::getchar()
BGetchar(st, j) ==
    LET a == IF st.top = st.max THEN refill(st) ELSE st
    IN  IF a.thrown THEN [st |-> a, ret |-> 0, data |-> << >>]
        ELSE IF st.top = st.max /\ a.max = 0
        THEN [st |-> a, ret |-> EOF, data |-> << >>]
        ELSE LET c == Cell(a, a.top, j)
             IN  [st |-> Advance(a), ret |-> ToChar(c), data |-> <<c>>]

\* p == s: nothing has been copied yet
Always(got) == TRUE
NothingCopied(got) == got = << >>

\* BufferedInStream::read(s, len); got is s[0 .. p - s)
RECURSIVE BRead(_, _, _, _)
BRead(st, len, got, junk) ==
    IF Len(got) = len THEN [st |-> st, n |-> Len(got), dst |-> got]
    ELSE LET a == IF st.top = st.max /\ NothingCopied(got)
                  THEN refill(st) ELSE st
             stop == st.top = st.max
                       /\ (~NothingCopied(got) \/ a.thrown \/ a.max = 0)
         IN  IF stop THEN [st |-> a, n |-> Len(got), dst |-> got]
             ELSE BRead(Advance(a), len,
                        Append(got, Cell(a, a.top, junk[Len(got) + 1])), junk)

\* BufferedInStream::readn(s, len)
RECURSIVE BReadn(_, _, _, _)
BReadn(st, len, got, junk) ==
    IF Len(got) = len THEN [st |-> st, n |-> Len(got), dst |-> got]
    ELSE LET a == IF st.top = st.max THEN refill(st) ELSE st
             stop == st.top = st.max /\ (a.thrown \/ a.max = 0)
         IN  IF stop THEN [st |-> a, n |-> Len(got), dst |-> got]
             ELSE BReadn(Advance(a), len,
                         Append(got, Cell(a, a.top, junk[Len(got) + 1])), junk)

\* What the uninitialized or out-of-bounds cells a call reads may hold: any
\* byte (one value for the cells of one call).  Such cells are read only once
\* a ::read has failed, in this call (which then ends in a state st0 with a
\* negative return among st0.os) or before.
NoJunk == [i \in 1..MaxRead |-> NL]
JunkSeqs(st0) ==
    IF osfailed \/ \E i \in 1..Len(st0.os) : st0.os[i] < 0
    THEN {[i \in 1..MaxRead |-> j] : j \in InByte}
    ELSE {NoJunk}

\* the stream after a call op(s, len) (len is 0 for a call without it) that
\* ended in st, returned ret and produced got; data are the bytes the call
\* took from the descriptor or the buffer
Produced(st, op, len, ret, got, data) ==
    /\ feed' = st.feed
    /\ top' = st.top
    /\ max' = st.max
    /\ buf' = st.buf
    /\ osfailed' = (osfailed \/ \E i \in 1..Len(st.os) : st.os[i] < 0)
    /\ afterFail' = IF osfailed THEN afterFail + 1 ELSE 0
    /\ delivered' = IF st.thrown \/ osfailed' THEN delivered
                    ELSE delivered \o got
    /\ res' = [op |-> op, len |-> len, ret |-> IF st.thrown THEN 0 ELSE ret,
               data |-> data, os |-> st.os, thrown |-> st.thrown]
    /\ UNCHANGED <<scene, mode, ostate, calls, submitted, failed, atDtor,
                   uwVars, kind, charSigned, source>>

CanRead ==
    /\ scene = "in"
    /\ Len(delivered) < MaxDelivered
    /\ afterFail < MaxAfterFail

\* getchar(): the caller tells a byte from the end of file by ret /= EOF
Getchar ==
    /\ CanRead
    /\ \E junk \in JunkSeqs(IF kind = "buffered" THEN BGetchar(InCall, NL).st
                             ELSE IGetchar(InCall, NL).st) :
         LET r == IF kind = "buffered" THEN BGetchar(InCall, junk[1])
                  ELSE IGetchar(InCall, junk[1])
         IN  Produced(r.st, "getchar", 0, r.ret,
                      IF r.ret = EOF THEN << >> ELSE <<r.ret % 256>>, r.data)
    /\ UNCHANGED printed

\* read(s, len)
ReadOf(len) ==
    \E junk \in JunkSeqs(IF kind = "buffered"
                          THEN BRead(InCall, len, << >>, NoJunk).st
                          ELSE UnixRead(InCall, len).st) :
      IF kind = "buffered"
      THEN LET r == BRead(InCall, len, << >>, junk)
           IN  Produced(r.st, "read", len, r.n, r.dst, r.dst)
      ELSE LET r == UnixRead(InCall, len)
               dst == Put([i \in 1..len |-> Uninit], 0, r.data)
           IN  Produced(r.st, "read", len, r.n, Seen(dst, r.n, junk), r.data)

Read == CanRead /\ (\E len \in 0..MaxRead : ReadOf(len)) /\ UNCHANGED printed

\* readn(s, len)
ReadnOf(len) ==
    \E junk \in JunkSeqs(IF kind = "buffered"
                          THEN BReadn(InCall, len, << >>, NoJunk).st
                          ELSE IReadn(InCall, len).st) :
      LET r == IF kind = "buffered" THEN BReadn(InCall, len, << >>, junk)
               ELSE IReadn(InCall, len)
      IN  Produced(r.st, "readn", len, r.n, Seen(r.dst, r.n, junk),
                   Seen(r.dst, r.n, junk))

Readn ==
    CanRead /\ (\E len \in 0..MaxRead : ReadnOf(len)) /\ UNCHANGED printed

\* in_file_open returns a UnixFileInStream; BufferedInStream(in_) wraps one
\* and vallocs BUFSIZ bytes
InStreamOver(feeds) ==
    /\ scene = "in"
    /\ NoOutFields
    /\ NoUnixWrite
    /\ kind \in {"unix", "buffered"}
    /\ charSigned \in BOOLEAN
    /\ feed \in feeds
    /\ source = FeedBytes(feed)
    /\ top = 0
    /\ max = 0
    /\ buf = IF kind = "buffered" THEN [i \in 0..(BUFSIZ - 1) |-> Uninit] ELSE << >>
    /\ delivered = << >>
    /\ osfailed = FALSE
    /\ afterFail = 0
    /\ res = [op |-> "none", len |-> 0, ret |-> 0, data |-> << >>,
              os |-> << >>, thrown |-> FALSE]
    /\ printed = << >>

InitIn == InStreamOver(Feeds)
InitInErr == InStreamOver(ErrFeeds)

NextIn == Getchar \/ Read \/ Readn

----------------------------------------------------------------------------
(* InStream::readuntil and InStream::getline *)

\* getchar() is virtual: BufferedInStream overrides it
VGetchar(st, j) ==
    IF kind = "buffered" THEN BGetchar(st, j) ELSE IGetchar(st, j)

\* does ret end with the neol bytes of eol?  (the memcmp of lines 78 and 100)
EndsWith(ret, eol) ==
    /\ Len(ret) >= Len(eol)
    /\ SubSeq(ret, Len(ret) - Len(eol) + 1, Len(ret)) = eol

\* readuntil(char eol): one turn of the loop, with r the result of getchar()
\* and ret the string so far.  c is an int, push_back stores its low byte, and
\* c == eol compares it with the char eol converted to int.
RECURSIVE readuntil_c(_, _, _, _)
UntilChar(r, eol, ret, j) ==
    IF r.st.thrown \/ r.ret = EOF THEN [st |-> r.st, ret |-> ret]
    ELSE IF r.ret = ToChar(eol)
    THEN [st |-> r.st, ret |-> Append(ret, r.ret % 256)]
    ELSE readuntil_c(r.st, eol, Append(ret, r.ret % 256), j)

readuntil_c(st, eol, ret, j) == UntilChar(VGetchar(st, j), eol, ret, j)

\* readuntil(const char *eol, size_t neol): one turn of the loop
RECURSIVE readuntil_s(_, _, _, _)
UntilStr(r, eol, ret, j) ==
    IF r.st.thrown \/ r.ret = EOF THEN [st |-> r.st, ret |-> ret]
    ELSE IF EndsWith(Append(ret, r.ret % 256), eol)
    THEN [st |-> r.st, ret |-> Append(ret, r.ret % 256)]
    ELSE readuntil_s(r.st, eol, Append(ret, r.ret % 256), j)

readuntil_s(st, eol, ret, j) == UntilStr(VGetchar(st, j), eol, ret, j)

\* getline(char eol): pop_back when the last char is eol
KeepDelim(ret, eol) == ret
getline_c(ret, eol) ==
    IF Len(ret) > 0 /\ ret[Len(ret)] = eol
    THEN SubSeq(ret, 1, Len(ret) - 1) ELSE ret

\* getline(const char *eol, size_t neol): resize when ret ends with eol
getline_s(ret, eol) ==
    IF EndsWith(ret, eol) THEN SubSeq(ret, 1, Len(ret) - Len(eol)) ELSE ret

\* the delimiters of the model: 1 .. MaxDelim bytes
Delims == UNION {[1..k -> OutByte] : k \in 1..MaxDelim}

\* the stream after a call that scanned r.ret and returned the string out
Scanned(r, op, out) == Produced(r.st, op, 0, Len(out), r.ret, out)

\* s = readuntil(eol) and s = getline(eol), eol a char
ReaduntilOf(eol) ==
    Scanned(readuntil_c(InCall, eol, << >>, NL), "readuntil",
            readuntil_c(InCall, eol, << >>, NL).ret)

GetlineOf(eol) ==
    Scanned(readuntil_c(InCall, eol, << >>, NL), "getline",
            getline_c(readuntil_c(InCall, eol, << >>, NL).ret, eol))

\* s = readuntil(eol, neol) and s = getline(eol, neol)
ReaduntilStrOf(eol) ==
    Scanned(readuntil_s(InCall, eol, << >>, NL), "readuntil",
            readuntil_s(InCall, eol, << >>, NL).ret)

GetlineStrOf(eol) ==
    Scanned(readuntil_s(InCall, eol, << >>, NL), "getline",
            getline_s(readuntil_s(InCall, eol, << >>, NL).ret, eol))

Readuntil ==
    CanRead /\ (\E eol \in InByte : ReaduntilOf(eol)) /\ UNCHANGED printed
Getline ==
    CanRead /\ (\E eol \in InByte : GetlineOf(eol)) /\ UNCHANGED printed
ReaduntilStr ==
    CanRead /\ (\E eol \in Delims : ReaduntilStrOf(eol)) /\ UNCHANGED printed
GetlineStr ==
    CanRead /\ (\E eol \in Delims : GetlineStrOf(eol)) /\ UNCHANGED printed

NextLines == Readuntil \/ Getline \/ ReaduntilStr \/ GetlineStr

\* delimiter-terminated reads from a descriptor that never fails
SpecLines == InitIn /\ [][NextLines]_vars

\* reads from a descriptor that never fails, and from one that fails once
SpecIn == InitIn /\ [][NextIn]_vars
SpecInErr == InitInErr /\ [][NextIn]_vars

----------------------------------------------------------------------------
(* main *)

\* the getline calls of main
MainGetlines == 3

\* the strings puts is given: like "Hello!\nWorld!\n" in valloc(4096), they
\* fit in the bytes allocated
Texts == SeqsUpTo(OutByte, VallocSize) \ {<< >>}

\* p->puts(s): write(s, strlen(s)) on the stream of out_file_open
MainPuts ==
    /\ scene = "main" /\ ostate = "live" /\ submitted = << >>
    /\ \E s \in Texts : Returned(write(Call("puts", -1), s, s), s)
    /\ UNCHANGED <<scene, mode, ostate, atDtor, uwVars, inVars>>

\* the end of the first block: ~BufferedOutStream() calls flush(), which calls
\* out->write(buf, top); this is its first ::write
MainDtorFlush ==
    /\ scene = "main" /\ ostate = "live" /\ submitted /= << >>
    /\ atDtor' = Pending(Call("dtor", -1))
    /\ ostate' = "dtor"
    /\ UWFirstOf(Pending(Call("dtor", -1)))
    /\ UNCHANGED <<scene, mode, top, buf, calls, submitted, failed, inVars>>

\* out->write returned: top = 0, free(buf), and the member out is destroyed,
\* which closes the descriptor
MainDtorEnd ==
    /\ scene = "main" /\ ostate = "dtor" /\ uwpc = "returned"
    /\ top' = 0
    /\ ostate' = "destroyed"
    /\ calls' = calls \o <<[op |-> "dtor", kind |-> "write", data |-> atDtor],
                           [op |-> "dtor", kind |-> "close", data |-> << >>]>>
    /\ UNCHANGED <<scene, mode, buf, submitted, failed, atDtor, uwVars, inVars>>

\* out->write threw inside the destructor: std::terminate
MainDtorThrow ==
    /\ scene = "main" /\ ostate = "dtor" /\ uwpc = "thrown"
    /\ ostate' = "terminated"
    /\ failed' = TRUE
    /\ UNCHANGED <<scene, mode, top, buf, calls, submitted, atDtor, uwVars,
                   inVars>>

\* the descriptors that deliver the bytes of a file in chunks, then end of file
FeedsOf(bytes) ==
    {[i \in 1..Len(bytes) |-> [b |-> bytes[i], end |-> e[i]]] :
        e \in {x \in [1..Len(bytes) -> BOOLEAN] : bytes = << >> \/ x[Len(bytes)]}}

\* in_file_open: open() fails and it throws (out_file_open gave open() no
\* mode argument with O_CREAT, so the file's permission bits are arbitrary),
\* or it returns a UnixFileInStream on the file, which holds the bytes the OS
\* accepted.  main reads from that stream; wrapped in a BufferedInStream it is
\* a read-ahead stream.
MainOpenIn ==
    /\ scene = "main" /\ ostate = "destroyed" /\ kind = "none"
    /\ res.op = "none"
    /\ \E ok \in BOOLEAN :
         /\ res' = [res EXCEPT !.op = "open", !.thrown = ~ok]
         /\ IF ok
            THEN /\ kind' \in {"unix", "buffered"}
                 /\ charSigned' \in BOOLEAN
                 /\ Len(accepted) <= MaxSrc
                 /\ feed' \in FeedsOf(accepted)
                 /\ source' = accepted
                 /\ buf' = IF kind' = "buffered"
                           THEN [i \in 0..(BUFSIZ - 1) |-> Uninit] ELSE << >>
            ELSE UNCHANGED <<kind, charSigned, feed, source, buf>>
    /\ UNCHANGED <<scene, mode, top, ostate, calls, submitted, failed, atDtor,
                   uwVars, max, delivered, osfailed, afterFail, printed>>

\* s = p->getline('\n'); printf("%s\n", s.c_str())
MainGetline ==
    /\ scene = "main" /\ kind /= "none" /\ Len(printed) < MainGetlines
    /\ GetlineOf(NL)
    /\ printed' = Append(printed, res'.data)

\* out_file_open has returned a BufferedOutStream in the default mode FullBuf
InitMain ==
    /\ scene = "main"
    /\ NoUnixWrite
    /\ NoInStream
    /\ mode = FullBuf
    /\ top = 0
    /\ buf = [i \in 0..(BUFSIZ - 1) |-> Uninit]
    /\ ostate = "live"
    /\ calls = << >>
    /\ submitted = << >>
    /\ failed = FALSE
    /\ atDtor = << >>

NextMain ==
    \/ MainPuts \/ MainDtorFlush \/ UWRetry \/ MainDtorEnd \/ MainDtorThrow
    \/ MainOpenIn \/ MainGetline

SpecMain == InitMain /\ [][NextMain]_vars

----------------------------------------------------------------------------
(* Properties of the read streams *)

\* the bytes loaded into the buffer and not yet consumed
Unread == [i \in 1..(max - top) |-> buf[top + i - 1]]

\* C2: over a BufferedInStream fed non-empty chunks and then end of file, the
\* bytes produced by any interleaving of getchar, read and readn are the
\* chunks' bytes in order, each once: what was produced, then what is still
\* buffered, then what the descriptor has yet to deliver, is the source.
C2_ReadConcatenation ==
    (scene = "in" /\ kind = "buffered" /\ ~osfailed /\ ~Fails(feed))
        => delivered \o Unread \o FeedBytes(feed) = source

\* C9: when ::read fails, the call, whichever operation it is, ends with the
\* error instead of a count, a byte or end of file.
C9_ReadErrorSurfaces ==
    (scene = "in" /\ \E i \in 1..Len(res.os) : res.os[i] < 0) => res.thrown

\* C10: getchar returns EOF exactly when the read or refill produced no byte,
\* and for a byte read its result identifies that byte (no ::read having
\* failed).
C10_GetcharEOF ==
    (scene = "in" /\ res.op = "getchar" /\ ~osfailed) =>
        /\ res.ret = EOF <=> res.data = << >>
        /\ res.data /= << >> => (res.ret /= EOF /\ res.ret % 256 = res.data[1])

\* the bytes the stream has yet to produce: those loaded and unread, then
\* those the descriptor still holds
Remaining == Unread \o FeedBytes(feed)

\* (A step that changes the state and leaves res.op = "readn" is a readn
\* call with len = res.len, and likewise for the other operations.)
\* C11: readn(s, len), of InStream and of BufferedInStream, over a descriptor
\* that holds r more bytes before end of file (in any chunking, no ::read
\* failing) returns min(len, r) without an error, has copied exactly the next
\* min(len, r) bytes in order, and leaves the rest; on an exhausted source it
\* returns 0.
C11_ReadnMinLenRemaining ==
    [][(scene = "in" /\ ~osfailed /\ res'.op = "readn") =>
          /\ ~res'.thrown
          /\ res'.ret = Min(res'.len, Len(Remaining))
          /\ res'.data = SubSeq(Remaining, 1, res'.ret)
          /\ Remaining' = SubSeq(Remaining, res'.ret + 1, Len(Remaining))]_vars

\* C11 witness: a readn that went on reading after a short chunk and returned
\* fewer bytes than asked for because it met the end of file.
C11_Witness ==
    /\ scene = "in" /\ res.op = "readn" /\ res.ret >= 1 /\ res.ret < res.len
    /\ Len(res.os) >= 2 /\ res.os[Len(res.os)] = 0

\* the shortest prefix of r that ends with the delimiter d, or r when d does
\* not occur in it
UpToDelim(r, d) ==
    LET ks == {k \in 1..Len(r) : EndsWith(SubSeq(r, 1, k), d)}
    IN  IF ks = {} THEN r
        ELSE SubSeq(r, 1, CHOOSE k \in ks : \A m \in ks : k <= m)

\* s without the delimiter d at its end
Stripped(s, d) ==
    IF EndsWith(s, d) THEN SubSeq(s, 1, Len(s) - Len(d)) ELSE s

\* the call consumed the bytes cut and returned out
Took(cut, out) ==
    /\ res'.data = out
    /\ Remaining' = SubSeq(Remaining, Len(cut) + 1, Len(Remaining))

\* what a step that is a readuntil or getline call must have done
DelimiterScanStep ==
    /\ \A eol \in InByte :
         /\ (CanRead /\ ReaduntilOf(eol)) =>
               Took(UpToDelim(Remaining, <<eol>>),
                    UpToDelim(Remaining, <<eol>>))
         /\ (CanRead /\ GetlineOf(eol)) =>
               Took(UpToDelim(Remaining, <<eol>>),
                    Stripped(UpToDelim(Remaining, <<eol>>), <<eol>>))
    /\ \A eol \in Delims :
         /\ (CanRead /\ ReaduntilStrOf(eol)) =>
               Took(UpToDelim(Remaining, eol), UpToDelim(Remaining, eol))
         /\ (CanRead /\ GetlineStrOf(eol)) =>
               Took(UpToDelim(Remaining, eol),
                    Stripped(UpToDelim(Remaining, eol), eol))

\* C12: readuntil, with a one-byte or a multi-byte delimiter, consumes and
\* returns the shortest prefix of the remaining input that ends with the
\* delimiter, or all of it when the end of file comes first, and the next call
\* goes on from the byte after it; getline returns the same bytes without the
\* delimiter at their end.
C12_DelimiterScan == [][DelimiterScanStep]_vars

\* C14: BufferedInStream::read(s, len) calls the backend at most once, and
\* only when the buffer was exhausted at entry, so before any byte is copied;
\* exhausted after a copy, it returns without a refill.  For len > 0 it returns
\* between 1 and len bytes, the next ones of the input, unless that one
\* backend read reports the end of file, and then 0 (no ::read failing).
C14_ReadRefillsAtMostOnce ==
    [][(scene = "in" /\ kind = "buffered" /\ ~osfailed /\ res'.op = "read") =>
          /\ Len(res'.os) <= 1
          /\ res'.os /= << >> => (top = max /\ res'.len > 0)
          /\ res'.len > 0 =>
                IF res'.os = <<0>> THEN res'.ret = 0
                ELSE res'.ret >= 1 /\ res'.ret <= res'.len
          /\ res'.data = SubSeq(Remaining, 1, res'.ret)]_vars

\* C14 witness: a read that copied fewer bytes than asked for and returned on
\* exhaustion without a refill, although the descriptor has more to deliver.
C14_Witness ==
    /\ scene = "in" /\ kind = "buffered" /\ res.op = "read"
    /\ res.ret >= 1 /\ res.ret < res.len /\ res.os = << >>
    /\ top = max /\ feed /= << >>

\* the i-th line of s: what lies between the (i-1)-th newline and the i-th,
\* or the end of s; empty once s is used up
RECURSIVE NthLine(_, _)
NthLine(s, i) ==
    IF i = 1 THEN Stripped(UpToDelim(s, <<NL>>), <<NL>>)
    ELSE NthLine(SubSeq(s, Len(UpToDelim(s, <<NL>>)) + 1, Len(s)), i - 1)

\* C13: a text written through the Full-mode stream of out_file_open, which
\* is then destroyed (every ::write having returned a positive count), and
\* read back from the reopened file by getline('\n') calls, through the raw
\* stream or a read-ahead stream, comes back line by line: the i-th call
\* yields the i-th line without its newline, and an empty string once the
\* file is used up ("Hello!", "World!", "" for "Hello!\nWorld!\n").
C13_RoundTrip ==
    (scene = "main" /\ AllPositive(rets)) =>
        \A i \in 1..Len(printed) : printed[i] = NthLine(submitted, i)

\* C13 witness: a text ending in a newline went to the file in two ::write
\* calls and main has printed its line and the empty strings of the end of
\* file, reading through a read-ahead stream.
C13_Witness ==
    /\ scene = "main" /\ kind = "buffered" /\ AllPositive(rets)
    /\ Len(rets) >= 2
    /\ Len(printed) = MainGetlines
    /\ submitted[Len(submitted)] = NL
    /\ printed[1] /= << >> /\ printed[MainGetlines] = << >>

\* C19: the cursors of a BufferedInStream satisfy 0 <= top <= max <= BUFSIZ
\* whatever the backend does, a failing ::read included, and while no ::read
\* has failed the cells [top, max) hold loaded bytes.
C19_ReadCursors ==
    (scene = "in" /\ kind = "buffered") =>
        /\ 0 <= top /\ top <= max /\ max <= BUFSIZ
        /\ \A i \in top..(max - 1) : i < BUFSIZ /\ buf[i] /= Uninit

====
